---- MODULE Spec2Model ----
(***************************************************************************)
(* Model of src/src/generate_tech_stack.py (Tech Stack Visualizer).        *)
(*                                                                         *)
(* Units.  Percentages and the collapse threshold are Python floats in the *)
(* source.  Here a percentage that has been through round(pct, 2) is kept  *)
(* as an integer number of hundredths of a percent (80.0 % is 8000), the   *)
(* threshold likewise (10.0 is 1000), and the comparison pct < threshold   *)
(* is decided on the exact rationals.  The byte values and thresholds the  *)
(* specifications enumerate are chosen so that the double-precision        *)
(* results of (b / total) * 100.0 fall on the same side of the threshold   *)
(* and round to the same two decimals as the exact rationals do.           *)
(* Scores are kept in hundredths of a point (score 70.0 is 7000).          *)
(*                                                                         *)
(* An OrderedDict is a sequence of tuples with pairwise distinct keys, in  *)
(* insertion order: lang_bytes is a sequence of <<lang, bytes>>, and       *)
(* percentages a sequence of <<lang, bytes, pct>>.                         *)
(***************************************************************************)
EXTENDS Integers, Sequences, FiniteSets, TLC

VARIABLES
    pc,                  \* position in the run (or in the function under study)
    repos,               \* main: the list returned by fetch_all_repos
    fetched,             \* aggregate_languages: outcome of each language fetch so far
    totals,              \* aggregate_languages: the defaultdict, in insertion order
    lang_bytes,          \* result of aggregate_languages / input of compute_percentages
    collapse_threshold,  \* args.collapse_threshold, hundredths of a percent
    percentages,         \* result of compute_percentages
    commit_i,            \* total_commits_all_repos: number of repos already counted
    stats,               \* the stats dict of main
    score,               \* generate_card_github_stats: score, hundredths of a point
    grade_text,          \* generate_card_github_stats: grade letter
    card,                \* generate_card_languages_overall: computed geometry
    files,               \* card files written so far
    exit_code,           \* process exit status (0 while running)
    failure,             \* the remote call whose failure ended the run, or "none"
    warnings,            \* number of failures that were caught and skipped
    log                  \* steps of main completed so far, in order

vars == <<pc, repos, fetched, totals, lang_bytes, collapse_threshold, percentages,
          commit_i, stats, score, grade_text, card, files, exit_code, failure,
          warnings, log>>

(***************************************************************************)
(* Bounds of the model.                                                    *)
(***************************************************************************)
MaxLangs == 3
MaxRepos == 2
MaxEntries == 10

(***************************************************************************)
(* Visual constants.                                                       *)
(***************************************************************************)
SVG_WIDTH == 500
CARD_PADDING == 20

(***************************************************************************)
(* Generic sequence helpers (Python built-ins).                            *)
(***************************************************************************)
Front(s) == SubSeq(s, 1, Len(s) - 1)

Last(s) == s[Len(s)]

Min(a, b) == IF a < b THEN a ELSE b

Max(a, b) == IF a > b THEN a ELSE b

Keys(d) == {d[i][1] : i \in 1..Len(d)}

IndexOf(d, k) == CHOOSE i \in 1..Len(d) : d[i][1] = k

\* sum(lang_bytes.values())
RECURSIVE SumBytes(_)
SumBytes(d) == IF d = <<>> THEN 0 ELSE SumBytes(Front(d)) + Last(d)[2]

\* sorted(items, key=lambda t: t[1], reverse=True): stable, descending by t[1]
InsertDesc(t, x) ==
    LET n == Cardinality({i \in 1..Len(t) : t[i][2] >= x[2]})
    IN  SubSeq(t, 1, n) \o <<x>> \o SubSeq(t, n + 1, Len(t))

RECURSIVE SortDesc(_)
SortDesc(s) == IF s = <<>> THEN <<>> ELSE InsertDesc(SortDesc(Front(s)), Last(s))

\* OrderedDict(pairs): a repeated key keeps its first position and takes the last value
DictPut(d, x) ==
    IF x[1] \in Keys(d)
    THEN [d EXCEPT ![IndexOf(d, x[1])] = x]
    ELSE Append(d, x)

RECURSIVE DictFromPairs(_)
DictFromPairs(s) == IF s = <<>> THEN <<>> ELSE DictPut(DictFromPairs(Front(s)), Last(s))

\* round(x, 2) of x = 100 * num / den, in hundredths: nearest, ties to even
Round2(num, den) ==
    LET q == (10000 * num) \div den
        r == (10000 * num) % den
    IN  IF 2 * r < den THEN q
        ELSE IF 2 * r > den THEN q + 1
        ELSE IF q % 2 = 0 THEN q ELSE q + 1

(***************************************************************************)
(* compute_percentages                                                     *)
(***************************************************************************)
\* a plausible slip: the share is compared as a fraction, not as a percentage
BelowThresholdUnscaled(b, total, thr) == 100 * b < thr * total

\* pct = (b / total) * 100.0;  pct < collapse_threshold
BelowThreshold(b, total, thr) == 10000 * b < thr * total

\* the loop over lang_bytes.items(): the items kept individually
KeptItems(d, total, thr) ==
    SelectSeq(d, LAMBDA p : ~BelowThreshold(p[2], total, thr))

\* the loop over lang_bytes.items(): other_bytes
OtherBytes(d, total, thr) ==
    SumBytes(SelectSeq(d, LAMBDA p : BelowThreshold(p[2], total, thr)))

compute_percentages(d, thr) ==
    LET total == SumBytes(d)
        other_bytes == OtherBytes(d, total, thr)
        items == KeptItems(d, total, thr) \o
                 (IF other_bytes > 0 THEN <<(<<"Other", other_bytes>>)>> ELSE <<>>)
        items_sorted == SortDesc(items)
    IN  IF total = 0 THEN <<>>
        ELSE DictFromPairs([i \in 1..Len(items_sorted) |->
                 <<items_sorted[i][1], items_sorted[i][2],
                   Round2(items_sorted[i][2], total)>>])


(***************************************************************************)
(* aggregate_languages.  The outcome of one fetch_langs_for_repo call is   *)
(* [ok |-> TRUE, langs |-> the mapping returned] or, when the call raised, *)
(* [ok |-> FALSE, langs |-> <<>>].                                         *)
(***************************************************************************)
\* a plausible slip: totals[lang] = int(b or 0) instead of +=
AddLangOverwrite(t, lang, b) ==
    IF lang \in Keys(t)
    THEN [t EXCEPT ![IndexOf(t, lang)] = <<lang, b>>]
    ELSE Append(t, <<lang, b>>)

\* totals[lang] += int(b or 0) on a defaultdict(int)
AddLang(t, lang, b) ==
    IF lang \in Keys(t)
    THEN [t EXCEPT ![IndexOf(t, lang)] = <<lang, t[IndexOf(t, lang)][2] + b>>]
    ELSE Append(t, <<lang, 0 + b>>)

\* for lang, b in langs.items(): totals[lang] += int(b or 0)
RECURSIVE AddLangs(_, _)
AddLangs(t, langs) ==
    IF langs = <<>> THEN t
    ELSE AddLang(AddLangs(t, Front(langs)), Last(langs)[1], Last(langs)[2])

\* one iteration of the loop over repos: a failed fetch is skipped (continue)
AddOutcome(t, out) == IF out.ok THEN AddLangs(t, out.langs) ELSE t

\* the whole loop over the outcomes, in order
RECURSIVE FoldTotals(_)
FoldTotals(outs) ==
    IF outs = <<>> THEN <<>> ELSE AddOutcome(FoldTotals(Front(outs)), Last(outs))

\* aggregate_languages on repositories whose fetches have the outcomes outs
AggregateOf(outs) == SortDesc(FoldTotals(outs))

(***************************************************************************)
(* generate_card_github_stats: the score and the grade                     *)
(***************************************************************************)
\* a plausible slip: the caps on the counters and the final clamp left out
ScoreUncapped(s) == s.stars * 2 + s.commits * 1 + s.prs * 4 + s.issues * 2

\* score, in hundredths: weights 0.02, 0.01, 0.04, 0.02 are 2, 1, 4, 2
ScoreOf(s) ==
    LET raw == Min(s.stars, 1000) * 2 + Min(s.commits, 2000) * 1
               + Min(s.prs, 500) * 4 + Min(s.issues, 500) * 2
    IN  Max(0, Min(10000, raw))

GradeOf(sc) ==
    IF sc >= 8500 THEN "A+"
    ELSE IF sc >= 7000 THEN "A"
    ELSE IF sc >= 5500 THEN "B"
    ELSE IF sc >= 4000 THEN "C"
    ELSE "D"

(***************************************************************************)
(* generate_card_languages_overall: the geometry.  Segment positions and   *)
(* widths are in ten-thousandths of a pixel (pct is in hundredths of a     *)
(* percent, so (pct / 100.0) * inner_width is pct * inner_width / 10000);  *)
(* the legend is in pixels.                                                *)
(***************************************************************************)
OverallHeight == 140 + 20

BarY == 54

BarHeight == 14

LegendY == BarY + BarHeight + 18

ItemGapX == 140

ItemGapY == 22

DotRadius == 6

InnerWidth == SVG_WIDTH - CARD_PADDING * 2

\* seg_w = max(1, (pct / 100.0) * inner_width)
SegW(pct) == Max(10000, pct * InnerWidth)

\* the loop building segs: (cur_x, seg_w) of each entry
RECURSIVE Segments(_)
Segments(p) ==
    IF p = <<>> THEN <<>>
    ELSE LET before == Segments(Front(p))
             cur_x == IF before = <<>> THEN CARD_PADDING * 10000
                      ELSE Last(before)[1] + Last(before)[2]
         IN  Append(before, <<cur_x, SegW(Last(p)[3])>>)

\* the legend loop: circle (cx, cy, r) and text baseline of entry idx (0-based)
LegendItem(idx) ==
    LET dot_x == CARD_PADDING + (idx % 2) * ItemGapX
        row_y == LegendY + (idx \div 2) * ItemGapY
    IN  [cx |-> dot_x + 6, cy |-> row_y, r |-> DotRadius, text_y |-> row_y + 4]

OverallCard(p) ==
    [height |-> OverallHeight,
     inner_width |-> InnerWidth,
     segs |-> Segments(p),
     legend |-> [i \in 1..Len(p) |-> LegendItem(i - 1)]]

(***************************************************************************)
(* Values the variables hold while a part of the program is not running.   *)
(***************************************************************************)
NoStats == [stars |-> 0, commits |-> 0, prs |-> 0, issues |-> 0, contributed_to |-> 0]

NoCard == [height |-> 0, inner_width |-> 0, segs |-> <<>>, legend |-> <<>>]

NoRun ==
    /\ repos = <<>>
    /\ fetched = <<>>
    /\ totals = <<>>
    /\ commit_i = 0
    /\ files = {}
    /\ exit_code = 0
    /\ failure = "none"
    /\ warnings = 0
    /\ log = <<>>

runVars == <<repos, fetched, totals, commit_i, files, exit_code, failure, warnings, log>>

(***************************************************************************)
(* Specification SpecNorm: compute_percentages applied to the mappings     *)
(* aggregate_languages can return (keys distinct, bytes descending).       *)
(***************************************************************************)
LangNames == {"Python", "JS", "CSS", "Other"}

ByteVals == {0, 1, 2, 5, 50, 150, 800}

Thresholds == {0, 100, 1000, 2500}

IsOrderedDict(d) == \A i, j \in 1..Len(d) : i < j => d[i][1] # d[j][1]

IsDescending(d) == \A i \in 1..(Len(d) - 1) : d[i][2] >= d[i + 1][2]

NormInputs ==
    {d \in UNION {[1..n -> LangNames \X ByteVals] : n \in 0..MaxLangs} :
        IsOrderedDict(d) /\ IsDescending(d)}

InitNorm ==
    /\ pc = "call_compute_percentages"
    /\ lang_bytes \in NormInputs
    /\ collapse_threshold \in Thresholds
    /\ percentages = <<>>
    /\ stats = NoStats
    /\ score = 0
    /\ grade_text = ""
    /\ card = NoCard
    /\ NoRun

ComputePercentages ==
    /\ pc = "call_compute_percentages"
    /\ percentages' = compute_percentages(lang_bytes, collapse_threshold)
    /\ pc' = "compute_percentages_done"
    /\ UNCHANGED <<lang_bytes, collapse_threshold, stats, score, grade_text, card>>
    /\ UNCHANGED runVars

NextNorm == ComputePercentages

SpecNorm == InitNorm /\ [][NextNorm]_vars

NormDone == pc = "compute_percentages_done"

RECURSIVE SumPct(_)
SumPct(p) == IF p = <<>> THEN 0 ELSE SumPct(Front(p)) + Last(p)[3]

C1Input == <<(<<"Python", 800>>), (<<"JS", 150>>), (<<"CSS", 50>>)>>

C1Case == NormDone /\ lang_bytes = C1Input /\ collapse_threshold = 1000

\* C1 as stated: on {Python: 800, JS: 150, CSS: 50} with threshold 10.0 the result is
\* exactly [(Python, 80.0, 800), (Other, 20.0, 200)], JS and CSS both collapsed.
C1_TwoEntries ==
    C1Case => percentages = <<(<<"Python", 800, 8000>>), (<<"Other", 200, 2000>>)>>

\* C1 amended: on {Python: 800, JS: 150, CSS: 50} with threshold 10.0 the result is
\* exactly [(Python, 80.0, 800), (JS, 15.0, 150), (Other, 5.0, 50)]: JS, at 15 %, is
\* kept and only CSS is collapsed into Other.
C1_ThreeEntries ==
    C1Case => percentages =
        <<(<<"Python", 800, 8000>>), (<<"JS", 150, 1500>>), (<<"Other", 50, 500>>)>>

C1_Witness == C1Case /\ Len(percentages) = 3

\* C2: whenever the total bytes are > 0, the rounded percentages of the entries
\* returned by compute_percentages sum to 100.00 within +/- 0.01.
C2_SumInvariant ==
    (NormDone /\ SumBytes(lang_bytes) > 0) =>
        (SumPct(percentages) >= 9999 /\ SumPct(percentages) <= 10001)

\* C3: a language whose share equals the threshold exactly is returned as its own
\* individual entry, and every language strictly below the threshold is absent as an
\* individual entry and has its bytes counted in the Other entry.
C3_ThresholdBoundary ==
    NormDone =>
        LET total == SumBytes(lang_bytes)
            collapsed == SelectSeq(lang_bytes,
                LAMBDA p : 10000 * p[2] < collapse_threshold * total)
        IN  total > 0 =>
              /\ \A i \in 1..Len(lang_bytes) :
                    10000 * lang_bytes[i][2] = collapse_threshold * total =>
                        \E j \in 1..Len(percentages) :
                            /\ percentages[j][1] = lang_bytes[i][1]
                            /\ percentages[j][2] = lang_bytes[i][2]
              /\ \A i \in 1..Len(collapsed) :
                    /\ collapsed[i][1] # "Other" => collapsed[i][1] \notin Keys(percentages)
                    /\ collapsed[i][2] > 0 =>
                        \E j \in 1..Len(percentages) :
                            /\ percentages[j][1] = "Other"
                            /\ percentages[j][2] = SumBytes(collapsed)

\* C4: the output holds at most one entry labelled "Other", and one is present only
\* if some input language has a share strictly below the threshold and the collapsed
\* bytes are > 0, also when the input itself has a language named "Other".
C4_OtherOnlyIfCollapsed ==
    NormDone =>
        LET total == SumBytes(lang_bytes)
            collapsed == SelectSeq(lang_bytes,
                LAMBDA p : 10000 * p[2] < collapse_threshold * total)
        IN  /\ Cardinality({j \in 1..Len(percentages) : percentages[j][1] = "Other"}) <= 1
            /\ "Other" \in Keys(percentages) =>
                  (collapsed # <<>> /\ SumBytes(collapsed) > 0)


(***************************************************************************)
(* Specification SpecStats: generate_card_github_stats applied to stats    *)
(* dicts with counters below, at and above the caps.                       *)
(***************************************************************************)
StarVals == {0, 60, 300, 1000, 6000}

CommitVals == {0, 500, 2000, 9000}

PrVals == {0, 20, 200, 500, 700}

IssueVals == {0, 30, 200, 500, 900}

ContribVals == {0, 10}

StatsInputs ==
    [stars : StarVals, commits : CommitVals, prs : PrVals, issues : IssueVals,
     contributed_to : ContribVals]

InitStats ==
    /\ pc = "call_generate_card_github_stats"
    /\ stats \in StatsInputs
    /\ score = 0
    /\ grade_text = ""
    /\ lang_bytes = <<>>
    /\ collapse_threshold = 100
    /\ percentages = <<>>
    /\ card = NoCard
    /\ NoRun

GenerateCardGithubStats ==
    /\ pc = "call_generate_card_github_stats"
    /\ score' = ScoreOf(stats)
    /\ grade_text' = GradeOf(score')
    /\ files' = files \cup {"card_github_stats.svg"}
    /\ pc' = "generate_card_github_stats_done"
    /\ UNCHANGED <<stats, lang_bytes, collapse_threshold, percentages, card>>
    /\ UNCHANGED <<repos, fetched, totals, commit_i, exit_code, failure, warnings, log>>

NextStats == GenerateCardGithubStats

SpecStats == InitStats /\ [][NextStats]_vars

StatsDone == pc = "generate_card_github_stats_done"

\* the score of C8's formula, in hundredths: weights 0.2, 0.02, 0.3, 0.15
ClaimedScore(s) ==
    Max(0, Min(10000, Min(s.stars, 300) * 20 + Min(s.commits, 2000) * 2
                      + Min(s.prs, 200) * 30 + Min(s.issues, 200) * 15))

\* C8: the score of the statistics card is min(stars,300)*0.2 + min(commits,2000)*0.02
\* + min(prs,200)*0.3 + min(issues,200)*0.15 clamped to [0,100], and the grade is A+
\* from 85, A from 70, B from 55, C from 40, otherwise D.
C8_ScoreFormula ==
    StatsDone =>
        /\ score = ClaimedScore(stats)
        /\ grade_text = (IF score >= 8500 THEN "A+" ELSE IF score >= 7000 THEN "A"
                         ELSE IF score >= 5500 THEN "B" ELSE IF score >= 4000 THEN "C"
                         ELSE "D")

Counters == {"stars", "commits", "prs", "issues", "contributed_to"}

\* t is s with exactly one counter made larger
OneCounterLarger(s, t) ==
    \E c \in Counters : t[c] > s[c] /\ \A e \in Counters \ {c} : t[e] = s[e]

\* C9: making one counter larger and leaving the others never lowers the score, and
\* the score stays within [0, 100] however large the counters are.
C9_ScoreMonotoneBounded ==
    StatsDone =>
        /\ score >= 0 /\ score <= 10000
        /\ \A t \in StatsInputs :
              OneCounterLarger(stats, t) =>
                  (ScoreOf(t) >= score /\ ScoreOf(t) <= 10000)

C9_Witness ==
    /\ StatsDone
    /\ stats.stars = 6000 /\ stats.commits = 9000 /\ stats.prs = 700
    /\ stats.issues = 500
    /\ score = 7000

(***************************************************************************)
(* Specification SpecOverall: generate_card_languages_overall applied to   *)
(* what compute_percentages returns for 0..MaxEntries languages.           *)
(***************************************************************************)
OverallLangs ==
    <<"Python", "JavaScript", "TypeScript", "HTML", "CSS", "Java", "Go", "Shell",
      "PHP", "Ruby", "C", "C++">>

Shapes == {"equal", "stepped", "dominant"}

ShapeBytes(shape, i) ==
    IF shape = "equal" THEN 1
    ELSE IF shape = "stepped" THEN Len(OverallLangs) + 1 - i
    ELSE IF i = 1 THEN 800 ELSE 1

OverallInputs ==
    {[i \in 1..n |-> <<OverallLangs[i], ShapeBytes(shape, i)>>] :
        n \in 0..MaxEntries, shape \in Shapes}

OverallThresholds == {0, 100, 1000}

InitOverall ==
    /\ pc = "call_generate_card_languages_overall"
    /\ lang_bytes \in OverallInputs
    /\ collapse_threshold \in OverallThresholds
    /\ percentages = compute_percentages(lang_bytes, collapse_threshold)
    /\ card = NoCard
    /\ stats = NoStats
    /\ score = 0
    /\ grade_text = ""
    /\ NoRun

GenerateCardLanguagesOverall ==
    /\ pc = "call_generate_card_languages_overall"
    /\ card' = OverallCard(percentages)
    /\ files' = files \cup {"card_languages_overall.svg"}
    /\ pc' = "generate_card_languages_overall_done"
    /\ UNCHANGED <<lang_bytes, collapse_threshold, percentages, stats, score, grade_text>>
    /\ UNCHANGED <<repos, fetched, totals, commit_i, exit_code, failure, warnings, log>>

NextOverall == GenerateCardLanguagesOverall

SpecOverall == InitOverall /\ [][NextOverall]_vars

OverallDone == pc = "generate_card_languages_overall_done"

\* C10: for every number of entries n, every legend row (dot and text baseline) of the
\* two-column card lies within the card's vertical extent [0, height].
C10_LegendWithinCard ==
    OverallDone =>
        \A i \in 1..Len(card.legend) :
            /\ card.legend[i].cy - card.legend[i].r >= 0
            /\ card.legend[i].cy + card.legend[i].r <= card.height
            /\ card.legend[i].text_y <= card.height


(***************************************************************************)
(* Specification Spec: a run of main.                                      *)
(***************************************************************************)
StarCounts == {0, 1}

RepoNames == <<"u/r1", "u/r2", "u/r3", "u/r4">>

RepoLists ==
    UNION {{[i \in 1..n |-> [full_name |-> RepoNames[i], stargazers_count |-> st[i]]] :
               st \in [1..n -> StarCounts]} : n \in 0..MaxRepos}

RepoLangMaps ==
    {<<>>,
     <<(<<"Python", 1>>)>>,
     <<(<<"JS", 1>>)>>,
     <<(<<"Python", 2>>), (<<"JS", 1>>)>>}

MainThresholds == {100, 5000}

CommitCounts == {0, 1}

SearchCounts == {0, 1}

\* a plausible slip: the two language cards written right after normalizing, before
\* the statistics are fetched
NextPcCardsEarly(p) ==
    CASE p = "fetch_repos" -> "aggregate"
      [] p = "aggregate" -> "normalize"
      [] p = "normalize" -> "write_overall"
      [] p = "write_overall" -> "write_top5"
      [] p = "write_top5" -> "stars"
      [] p = "stars" -> "commits"
      [] p = "commits" -> "prs"
      [] p = "prs" -> "issues"
      [] p = "issues" -> "write_stats"
      [] p = "write_stats" -> "done"
      [] OTHER -> "done"

\* the order of the statements of main
NextPc(p) ==
    CASE p = "fetch_repos" -> "aggregate"
      [] p = "aggregate" -> "normalize"
      [] p = "normalize" -> "stars"
      [] p = "stars" -> "commits"
      [] p = "commits" -> "prs"
      [] p = "prs" -> "issues"
      [] p = "issues" -> "write_overall"
      [] p = "write_overall" -> "write_top5"
      [] p = "write_top5" -> "write_stats"
      [] p = "write_stats" -> "done"
      [] OTHER -> "done"

Init ==
    /\ pc = "fetch_repos"
    /\ collapse_threshold \in MainThresholds
    /\ lang_bytes = <<>>
    /\ percentages = <<>>
    /\ stats = NoStats
    /\ score = 0
    /\ grade_text = ""
    /\ card = NoCard
    /\ NoRun

\* the process ends with a non-zero status: sys.exit(1) or an uncaught exception
Die(cause) ==
    /\ pc' = "exited"
    /\ exit_code' = 1
    /\ failure' = cause

\* fetch_all_repos returns the list
FetchReposOk ==
    /\ pc = "fetch_repos"
    /\ \E rs \in RepoLists : repos' = rs
    /\ pc' = NextPc(pc)
    /\ log' = Append(log, "repos")
    /\ UNCHANGED <<fetched, totals, lang_bytes, collapse_threshold, percentages, commit_i,
                   stats, score, grade_text, card, files, exit_code, failure, warnings>>

\* HTTP 404: fetch_all_repos raises SystemExit, main prints it and exits 1
FetchReposNotFound ==
    /\ pc = "fetch_repos"
    /\ Die("repos_404")
    /\ UNCHANGED <<repos, fetched, totals, lang_bytes, collapse_threshold, percentages,
                   commit_i, stats, score, grade_text, card, files, warnings, log>>

\* any other failure of the listing: raise_for_status raises, main exits 1
FetchReposError ==
    /\ pc = "fetch_repos"
    /\ Die("repos_error")
    /\ UNCHANGED <<repos, fetched, totals, lang_bytes, collapse_threshold, percentages,
                   commit_i, stats, score, grade_text, card, files, warnings, log>>

\* aggregate_languages, one repository: the fetch returns a mapping
AggFetchOk ==
    /\ pc = "aggregate"
    /\ Len(fetched) < Len(repos)
    /\ \E langs \in RepoLangMaps :
          LET out == [ok |-> TRUE, langs |-> langs]
          IN  /\ fetched' = Append(fetched, out)
              /\ totals' = AddOutcome(totals, out)
    /\ UNCHANGED <<pc, repos, lang_bytes, collapse_threshold, percentages, commit_i, stats,
                   score, grade_text, card, files, exit_code, failure, warnings, log>>

\* aggregate_languages, one repository: the fetch raises, warn and skip
AggFetchFail ==
    /\ pc = "aggregate"
    /\ Len(fetched) < Len(repos)
    /\ LET out == [ok |-> FALSE, langs |-> <<>>]
       IN  /\ fetched' = Append(fetched, out)
           /\ totals' = AddOutcome(totals, out)
    /\ warnings' = warnings + 1
    /\ UNCHANGED <<pc, repos, lang_bytes, collapse_threshold, percentages, commit_i, stats,
                   score, grade_text, card, files, exit_code, failure, log>>

\* aggregate_languages, after the loop: sort descending and return
AggReturn ==
    /\ pc = "aggregate"
    /\ Len(fetched) = Len(repos)
    /\ lang_bytes' = SortDesc(totals)
    /\ pc' = NextPc(pc)
    /\ log' = Append(log, "aggregate")
    /\ UNCHANGED <<repos, fetched, totals, collapse_threshold, percentages, commit_i, stats,
                   score, grade_text, card, files, exit_code, failure, warnings>>

\* percentages = compute_percentages(lang_bytes, ...); the aggregator's locals are gone
MainNormalize ==
    /\ pc = "normalize"
    /\ percentages' = compute_percentages(lang_bytes, collapse_threshold)
    /\ fetched' = <<>>
    /\ totals' = <<>>
    /\ pc' = NextPc(pc)
    /\ log' = Append(log, "normalize")
    /\ UNCHANGED <<repos, lang_bytes, collapse_threshold, commit_i, stats, score,
                   grade_text, card, files, exit_code, failure, warnings>>

RECURSIVE total_stars(_)
total_stars(rs) ==
    IF rs = <<>> THEN 0 ELSE total_stars(Front(rs)) + Last(rs).stargazers_count

MainStars ==
    /\ pc = "stars"
    /\ stats' = [stats EXCEPT !.stars = total_stars(repos)]
    /\ pc' = NextPc(pc)
    /\ log' = Append(log, "stars")
    /\ UNCHANGED <<repos, fetched, totals, lang_bytes, collapse_threshold, percentages,
                   commit_i, score, grade_text, card, files, exit_code, failure, warnings>>

\* total_commits_all_repos, one repository: the count is added
CommitCountOk ==
    /\ pc = "commits"
    /\ commit_i < Len(repos)
    /\ \E c \in CommitCounts : stats' = [stats EXCEPT !.commits = @ + c]
    /\ commit_i' = commit_i + 1
    /\ UNCHANGED <<pc, repos, fetched, totals, lang_bytes, collapse_threshold, percentages,
                   score, grade_text, card, files, exit_code, failure, warnings, log>>

\* total_commits_all_repos, one repository: the call raises, non-fatal
CommitCountFail ==
    /\ pc = "commits"
    /\ commit_i < Len(repos)
    /\ commit_i' = commit_i + 1
    /\ warnings' = warnings + 1
    /\ UNCHANGED <<pc, repos, fetched, totals, lang_bytes, collapse_threshold, percentages,
                   stats, score, grade_text, card, files, exit_code, failure, log>>

CommitsReturn ==
    /\ pc = "commits"
    /\ commit_i = Len(repos)
    /\ pc' = NextPc(pc)
    /\ log' = Append(log, "commits")
    /\ UNCHANGED <<repos, fetched, totals, lang_bytes, collapse_threshold, percentages,
                   commit_i, stats, score, grade_text, card, files, exit_code, failure,
                   warnings>>

\* prs_and_repos_contributed returns (total_prs, repo_set)
PrSearchOk ==
    /\ pc = "prs"
    /\ \E n \in SearchCounts, k \in SearchCounts :
          /\ k <= n
          /\ stats' = [stats EXCEPT !.prs = n, !.contributed_to = k]
    /\ pc' = NextPc(pc)
    /\ log' = Append(log, "prs")
    /\ UNCHANGED <<repos, fetched, totals, lang_bytes, collapse_threshold, percentages,
                   commit_i, score, grade_text, card, files, exit_code, failure, warnings>>

\* prs_and_repos_contributed: raise_for_status raises and nothing in main catches it
PrSearchFail ==
    /\ pc = "prs"
    /\ Die("pr_search")
    /\ UNCHANGED <<repos, fetched, totals, lang_bytes, collapse_threshold, percentages,
                   commit_i, stats, score, grade_text, card, files, warnings, log>>

\* issues_count returns
IssueSearchOk ==
    /\ pc = "issues"
    /\ \E n \in SearchCounts : stats' = [stats EXCEPT !.issues = n]
    /\ pc' = NextPc(pc)
    /\ log' = Append(log, "issues")
    /\ UNCHANGED <<repos, fetched, totals, lang_bytes, collapse_threshold, percentages,
                   commit_i, score, grade_text, card, files, exit_code, failure, warnings>>

\* search_count: raise_for_status raises and nothing in main catches it
IssueSearchFail ==
    /\ pc = "issues"
    /\ Die("issue_search")
    /\ UNCHANGED <<repos, fetched, totals, lang_bytes, collapse_threshold, percentages,
                   commit_i, stats, score, grade_text, card, files, warnings, log>>

WriteOverall ==
    /\ pc = "write_overall"
    /\ card' = OverallCard(percentages)
    /\ files' = files \cup {"card_languages_overall.svg"}
    /\ pc' = NextPc(pc)
    /\ log' = Append(log, "card_languages_overall")
    /\ UNCHANGED <<repos, fetched, totals, lang_bytes, collapse_threshold, percentages,
                   commit_i, stats, score, grade_text, exit_code, failure, warnings>>

WriteTop5 ==
    /\ pc = "write_top5"
    /\ files' = files \cup {"card_languages_top5.svg"}
    /\ pc' = NextPc(pc)
    /\ log' = Append(log, "card_languages_top5")
    /\ UNCHANGED <<repos, fetched, totals, lang_bytes, collapse_threshold, percentages,
                   commit_i, stats, score, grade_text, card, exit_code, failure, warnings>>

WriteStats ==
    /\ pc = "write_stats"
    /\ score' = ScoreOf(stats)
    /\ grade_text' = GradeOf(score')
    /\ files' = files \cup {"card_github_stats.svg"}
    /\ pc' = NextPc(pc)
    /\ log' = Append(log, "card_github_stats")
    /\ UNCHANGED <<repos, fetched, totals, lang_bytes, collapse_threshold, percentages,
                   commit_i, stats, card, exit_code, failure, warnings>>

Next ==
    \/ FetchReposOk
    \/ FetchReposNotFound
    \/ FetchReposError
    \/ AggFetchOk
    \/ AggFetchFail
    \/ AggReturn
    \/ MainNormalize
    \/ MainStars
    \/ CommitCountOk
    \/ CommitCountFail
    \/ CommitsReturn
    \/ PrSearchOk
    \/ PrSearchFail
    \/ IssueSearchOk
    \/ IssueSearchFail
    \/ WriteOverall
    \/ WriteTop5
    \/ WriteStats

Spec == Init /\ [][Next]_vars


\* aggregate_languages has returned and compute_percentages has not yet run
AggReturned == pc = "normalize"

Perms(n) == {f \in [1..n -> 1..n] : \A i, j \in 1..n : i # j => f[i] # f[j]}

Permute(s, f) == [i \in 1..Len(s) |-> s[f[i]]]

AsMap(d) == {<<d[i][1], d[i][2]>> : i \in 1..Len(d)}

\* bytes of lang reported by the fetches that succeeded
RECURSIVE SumFor(_, _)
SumFor(lang, outs) ==
    IF outs = <<>> THEN 0
    ELSE SumFor(lang, Front(outs)) +
         (IF Last(outs).ok /\ lang \in Keys(Last(outs).langs)
          THEN Last(outs).langs[IndexOf(Last(outs).langs, lang)][2]
          ELSE 0)

ReportedLangs(outs) ==
    UNION {IF outs[i].ok THEN Keys(outs[i].langs) ELSE {} : i \in 1..Len(outs)}

\* every repository was visited, nothing aborted, and each language maps to the sum
\* of what the successful fetches reported for it
SumsOfSuccessful ==
    /\ Len(fetched) = Len(repos)
    /\ exit_code = 0 /\ failure = "none"
    /\ Keys(lang_bytes) = ReportedLangs(fetched)
    /\ IsOrderedDict(lang_bytes)
    /\ \A i \in 1..Len(lang_bytes) : lang_bytes[i][2] = SumFor(lang_bytes[i][1], fetched)

\* C5 as stated: with any subset of the language fetches failing, aggregate_languages
\* does not abort and returns for each language the sum over the successful fetches,
\* and the returned result is the same for every order of the repositories.
C5_ResultOrderIndependent ==
    AggReturned =>
        /\ SumsOfSuccessful
        /\ \A f \in Perms(Len(fetched)) : AggregateOf(Permute(fetched, f)) = lang_bytes

\* C5 amended: as above, but only the per-language totals are the same for every order
\* of the repositories; the order of the keys of the returned mapping is not (languages
\* with equal totals stay in the order in which they were first reported).
C5_TotalsOrderIndependent ==
    AggReturned =>
        /\ SumsOfSuccessful
        /\ \A f \in Perms(Len(fetched)) :
              AsMap(AggregateOf(Permute(fetched, f))) = AsMap(lang_bytes)

C5_Witness ==
    /\ AggReturned
    /\ Len(fetched) = 2
    /\ ~fetched[1].ok
    /\ fetched[2].ok /\ Len(fetched[2].langs) = 2
    /\ lang_bytes = fetched[2].langs

\* C6: a run ends in failure (non-zero exit, no cards) only when the repository listing
\* returned 404; a failure of any other remote call never ends the run.
C6_OnlyNotFoundIsFatal ==
    (exit_code # 0 \/ pc = "exited") => failure = "repos_404"

FetchSteps == {"repos", "aggregate", "commits", "prs", "issues"}

CardSteps == {"card_languages_overall", "card_languages_top5", "card_github_stats"}

BeforeCardPcs ==
    {"fetch_repos", "aggregate", "normalize", "stars", "commits", "prs", "issues"}

\* C7: no card file is written before every remote fetch of the run has finished, a run
\* that ends during a fetch step has written no card file, and the steps come in the
\* order aggregate, normalize, card generation.
C7_NoCardBeforeFetches ==
    /\ files # {} => \A f \in FetchSteps : \E j \in 1..Len(log) : log[j] = f
    /\ \A i \in 1..Len(log) :
          log[i] \in CardSteps =>
              /\ \A f \in FetchSteps : \E j \in 1..(i - 1) : log[j] = f
              /\ \E j, k \in 1..(i - 1) :
                    j < k /\ log[j] = "aggregate" /\ log[k] = "normalize"
    /\ pc \in BeforeCardPcs => files = {}
    /\ pc = "exited" => files = {}

C7_Witness ==
    /\ pc = "write_top5"
    /\ files = {"card_languages_overall.svg"}
    /\ warnings > 0


RECURSIVE SumEntryBytes(_)
SumEntryBytes(p) == IF p = <<>> THEN 0 ELSE SumEntryBytes(Front(p)) + Last(p)[2]

\* C11: byte conservation: whenever the total bytes are > 0, the byte counts of the
\* entries returned by compute_percentages sum to the total bytes of the input, also
\* when the input has a language named "Other".
C11_ByteConservation ==
    (NormDone /\ SumBytes(lang_bytes) > 0) =>
        SumEntryBytes(percentages) = SumBytes(lang_bytes)

\* C12: the stacked bar segments are laid out left to right without overlap, and the
\* right edge of the last segment never exceeds the right edge of the background
\* track, CARD_PADDING + inner_width = 480.
C12_SegmentsWithinTrack ==
    OverallDone =>
        /\ Len(card.segs) = Len(percentages)
        /\ \A i \in 1..Len(card.segs) : card.segs[i][1] >= CARD_PADDING * 10000
        /\ \A i \in 1..(Len(card.segs) - 1) :
              card.segs[i + 1][1] >= card.segs[i][1] + card.segs[i][2]
        /\ \A i \in 1..Len(card.segs) :
              card.segs[i][1] + card.segs[i][2] <= (CARD_PADDING + card.inner_width) * 10000

====
